---------------------------- MODULE Spec2Model ----------------------------
(***************************************************************************)
(* Model of faraday/server/utils/database.py: the query helpers            *)
(* sort_results, apply_search_filter (with concat_search_terms and         *)
(* prepare_boolean_filter), get_or_create, get_unique_fields and           *)
(* get_conflict_object.                                                    *)
(*                                                                         *)
(* Python values are modelled as follows.  A str is the sequence of its    *)
(* characters (<<"T","r","u","e">>), so that lower(), '%' + s + '%',       *)
(* endswith() and strip() are computed and not assumed.  A SQL expression  *)
(* is a tuple whose first element is its operator.  A query is the         *)
(* sequence of the builder calls applied to it.  None is <<"None">>, which *)
(* is no string (its element is not one character) and no expression.      *)
(***************************************************************************)
EXTENDS Integers, Sequences, FiniteSets, Bags, TLC

VARIABLES
    pc,                 \* position of the call under way
    field_to_col_map,   \* dict, in insertion order: <<[attribute, columns], ...>>
    free_text_search,   \* apply_search_filter: a str or None
    field_filter,       \* apply_search_filter: dict attribute -> str
    strict_filter,      \* apply_search_filter: the attributes matched with '='
    terms,              \* search_term_sql_filter of every attribute iterated
    fts_sql_filter,     \* apply_search_filter's local, at return
    dfs_sql_filter,     \* apply_search_filter's local, at return
    query,              \* the query returned: the builder calls applied to it
    error,              \* the exception raised, or None
    order_field,        \* sort_results
    order_dir,          \* sort_results
    default,            \* sort_results
    session,            \* get_or_create: the instances the session holds (a bag)
    call,               \* get_or_create: <<[kwargs, defaults]>> of the last call
    remembered,         \* get_or_create: <<[kwargs, defaults]>> of an earlier call
    repeat,             \* get_or_create: the last call repeated `remembered`
    result,             \* get_or_create: <<[instance, created]>> of the last call
    obj,                \* get_conflict_object: [class, attrs] of the candidate
    data,               \* get_conflict_object: dict name -> value
    workspace,          \* get_conflict_object: the workspace's id, or None
    ids,                \* get_conflict_object: the ids of the context view
    unique_constraints, \* what the inspector reflects for the object's table
    stored,             \* the rows of the object's table
    conflict            \* get_conflict_object's return value

searchVars == <<field_to_col_map, free_text_search, field_filter, strict_filter,
                terms, fts_sql_filter, dfs_sql_filter, query, error,
                order_field, order_dir, default>>

sessionVars == <<session, call, remembered, repeat, result>>

conflictVars == <<obj, data, workspace, ids, unique_constraints, stored, conflict>>

vars == <<pc, searchVars, sessionVars, conflictVars>>

None == <<"None">>

\* None where a name is expected (a dict key, a __tablename__).
NoneKey == "None"

\* The variables of the query helpers while another function is called.
NoSearch ==
    /\ field_to_col_map = <<>>
    /\ free_text_search = None
    /\ field_filter = <<>>
    /\ strict_filter = {}
    /\ terms = <<>>
    /\ fts_sql_filter = None
    /\ dfs_sql_filter = None
    /\ query = <<>>
    /\ error = None
    /\ order_field = NoneKey
    /\ order_dir = None
    /\ default = None

\* The variables of get_or_create while another function is called.
NoSession ==
    /\ session = <<>>
    /\ call = <<>>
    /\ remembered = <<>>
    /\ repeat = FALSE
    /\ result = <<>>

\* The variables of get_conflict_object while another function is called.
NoConflict ==
    /\ obj = <<>>
    /\ data = <<>>
    /\ workspace = None
    /\ ids = {}
    /\ unique_constraints = <<>>
    /\ stored = {}
    /\ conflict = None

-----------------------------------------------------------------------------
(* Bounds *)

\* Longest column list of one attribute of field_to_col_map.
MaxCols == 2

\* Most instances one session holds.
MaxRecords == 2

\* Most unique constraints the inspector reflects for one table.
MaxConstraints == 2

\* Most rows stored in the object's table.
MaxStored == 2

-----------------------------------------------------------------------------
(* Strings *)

Str_true  == <<"t", "r", "u", "e">>
Str_1     == <<"1">>
Str_false == <<"f", "a", "l", "s", "e">>
Str_0     == <<"0">>

\* str.lower() on one character.
LowerChar(c) ==
    CASE c = "A" -> "a" [] c = "E" -> "e" [] c = "F" -> "f" [] c = "L" -> "l"
      [] c = "R" -> "r" [] c = "S" -> "s" [] c = "T" -> "t" [] c = "U" -> "u"
      [] c = "X" -> "x"
      [] OTHER -> c

\* str.lower()
Lower(s) == [i \in 1..Len(s) |-> LowerChar(s[i])]

Range(s) == {s[i] : i \in 1..Len(s)}

\* Python truthiness of a str-or-None argument.
Truthy(s) == s # None /\ s # <<>>

-----------------------------------------------------------------------------
(* SQL expressions and queries *)

Like(column, pattern) == <<"like", column, pattern>>
OpEq(column, value)   == <<"=", column, value>>
Is(column, value)     == <<"is", column, value>>
AndExpr(left, right)  == <<"and", left, right>>
OrExpr(left, right)   == <<"or", left, right>>

BaseQuery == <<>>
Filter(q, criterion) == Append(q, <<"filter", criterion>>)
OrderBy(q, cols)     == Append(q, <<"order_by", cols>>)

\* The columns a mapping may list.  "count" is a label: a plain str in the
\* mapping, not a column object.
Columns == {"name", "confirmed", "count"}

ColumnType(column) ==
    CASE column = "name"      -> "String"
      [] column = "confirmed" -> "Boolean"
      [] column = "count"     -> "str"

IsStr(column) == ColumnType(column) = "str"

-----------------------------------------------------------------------------
(* concat_search_terms, prepare_boolean_filter *)

concat_search_terms(sql_filter_left, sql_filter_right, operator) ==
    IF sql_filter_left = None /\ sql_filter_right = None THEN None
    ELSE IF sql_filter_left = None THEN sql_filter_right
    ELSE IF sql_filter_right = None THEN sql_filter_left
    ELSE IF operator = "and" THEN AndExpr(sql_filter_left, sql_filter_right)
    ELSE IF operator = "or" THEN OrExpr(sql_filter_left, sql_filter_right)
    ELSE None

\* Mutant: the field filters are joined with OR.
concat_and_search_term_or(left, right) == concat_search_terms(left, right, "or")

concat_and_search_term(left, right) == concat_search_terms(left, right, "and")

concat_or_search_term(left, right) == concat_search_terms(left, right, "or")

\* Mutant: every value that is not true counts as false.
prepare_boolean_filter_else_false(column, search_term) ==
    IF search_term \in {Str_true, Str_1} THEN Is(column, "TRUE")
    ELSE OrExpr(Is(column, "FALSE"), Is(column, "NULL"))

prepare_boolean_filter(column, search_term) ==
    IF search_term \in {Str_true, Str_1} THEN Is(column, "TRUE")
    ELSE IF search_term \in {Str_false, Str_0}
         THEN OrExpr(Is(column, "FALSE"), Is(column, "NULL"))
    ELSE None

-----------------------------------------------------------------------------
(* apply_search_filter *)

Attributes == {field_to_col_map[i].attribute : i \in 1..Len(field_to_col_map)}

\* field_to_col_map.get(attribute), for a mapped attribute
ColsOf(attribute) ==
    LET i == CHOOSE j \in 1..Len(field_to_col_map) :
                 field_to_col_map[j].attribute = attribute
    IN  field_to_col_map[i].columns

\* Mutant: the free-text term takes precedence over the field filter.
is_direct_filter_search_fts_first(attribute) ==
    attribute \in DOMAIN field_filter /\ ~Truthy(free_text_search)

is_direct_filter_search(attribute) == attribute \in DOMAIN field_filter

is_free_text_search(attribute) ==
    ~is_direct_filter_search(attribute) /\ Truthy(free_text_search)

\* Lines 72-77: the search term with wildcards on both ends.
like_str(attribute) ==
    IF is_direct_filter_search(attribute)
    THEN <<"%">> \o field_filter[attribute] \o <<"%">>
    ELSE <<"%">> \o free_text_search \o <<"%">>

\* Mutant: labels are searched like columns.
IsSkippedLabel_never(column) == FALSE

\* Lines 85-86: a label, skipped by the inner loop.
IsSkippedLabel(column) == IsStr(column)

\* Lines 85-104: the search term of one column, None when the column is
\* skipped (continue).
search_term(attribute, column) ==
    IF IsSkippedLabel(column) THEN None
    ELSE IF is_direct_filter_search(attribute) /\ ColumnType(column) = "Boolean"
    THEN prepare_boolean_filter(column, Lower(field_filter[attribute]))
    ELSE IF is_direct_filter_search(attribute) /\ attribute \in strict_filter
    THEN OpEq(column, field_filter[attribute])
    ELSE Like(column, like_str(attribute))

\* Lines 79-106: the inner loop over the first n columns of an attribute.
RECURSIVE search_term_sql_filter(_, _)
search_term_sql_filter(attribute, n) ==
    IF n = 0 THEN None
    ELSE concat_or_search_term(search_term_sql_filter(attribute, n - 1),
                               search_term(attribute, ColsOf(attribute)[n]))

AttributeFilter(attribute) ==
    IF is_direct_filter_search(attribute) \/ is_free_text_search(attribute)
    THEN search_term_sql_filter(attribute, Len(ColsOf(attribute)))
    ELSE None

\* Lines 67-112: the outer loop over the first n attributes; the value is
\* <<fts_sql_filter, dfs_sql_filter>>.
RECURSIVE FilterLoop(_)
FilterLoop(n) ==
    IF n = 0 THEN <<None, None>>
    ELSE LET acc       == FilterLoop(n - 1)
             attribute == field_to_col_map[n].attribute
         IN  IF is_direct_filter_search(attribute)
             THEN <<acc[1], concat_and_search_term(acc[2], AttributeFilter(attribute))>>
             ELSE IF is_free_text_search(attribute)
             THEN <<concat_or_search_term(acc[1], AttributeFilter(attribute)), acc[2]>>
             ELSE acc

\* Mutant: raise only when no asked attribute is mapped.
InvalidField_all ==
    /\ DOMAIN field_filter # {}
    /\ \A attr \in DOMAIN field_filter : attr \notin Attributes

\* Line 59: some asked attribute is not mapped.
InvalidField == \E attr \in DOMAIN field_filter : attr \notin Attributes

apply_search_filter ==
    /\ pc = "apply_search_filter"
    /\ IF InvalidField
       THEN /\ pc' = "raised"
            /\ error' = <<"ValueError", "Invalid field to filter">>
            /\ UNCHANGED <<terms, fts_sql_filter, dfs_sql_filter, query>>
       ELSE LET acc        == FilterLoop(Len(field_to_col_map))
                sql_filter == concat_and_search_term(acc[1], acc[2])
            IN  /\ pc' = "returned"
                /\ terms' = [a \in Attributes |-> AttributeFilter(a)]
                /\ fts_sql_filter' = acc[1]
                /\ dfs_sql_filter' = acc[2]
                /\ query' = IF sql_filter # None THEN Filter(query, sql_filter)
                            ELSE query
                /\ UNCHANGED error
    /\ UNCHANGED <<field_to_col_map, free_text_search, field_filter,
                   strict_filter, order_field, order_dir, default>>
    /\ UNCHANGED <<sessionVars, conflictVars>>

-----------------------------------------------------------------------------
(* Inputs *)

RECURSIVE InjSeqs(_, _)
\* The sequences without repetition of at most n elements of S.
InjSeqs(S, n) ==
    IF n = 0 THEN {<<>>}
    ELSE LET shorter == InjSeqs(S, n - 1)
         IN  shorter \cup {Append(s, x) : s \in shorter, x \in S}

NoRepeat(s) == \A i, j \in 1..Len(s) : s[i] = s[j] => i = j

ColumnLists == {s \in InjSeqs(Columns, MaxCols) : NoRepeat(s)}

\* The mappings: at most two attributes, each with a column list.
FieldToColMaps ==
    {<<>>}
    \cup {<<[attribute |-> "a", columns |-> c]>> : c \in ColumnLists}
    \cup {<<[attribute |-> "a", columns |-> c],
            [attribute |-> "b", columns |-> d]>> : c \in ColumnLists, d \in ColumnLists}

FilterValues ==
    {<<"T", "r", "u", "e">>, <<"1">>, <<"F", "A", "L", "S", "E">>, <<"0">>, <<"x">>}

\* The field filters: "a" and "b" with any value; "zz" is never mapped.
FieldFilters ==
    UNION {[K -> FilterValues] : K \in SUBSET {"a", "b"}}
    \cup UNION {{[k \in K \cup {"zz"} |-> IF k = "zz" THEN <<"x">> ELSE f[k]] :
                    f \in [K -> FilterValues]} : K \in SUBSET {"a", "b"}}

FreeTextSearches == {None, <<>>, <<"x">>}

InitFilter ==
    /\ pc = "apply_search_filter"
    /\ field_to_col_map \in FieldToColMaps
    /\ free_text_search \in FreeTextSearches
    /\ field_filter \in FieldFilters
    /\ strict_filter \in SUBSET {"a", "b"}
    /\ terms = <<>>
    /\ fts_sql_filter = None
    /\ dfs_sql_filter = None
    /\ query = BaseQuery
    /\ error = None
    /\ order_field = NoneKey
    /\ order_dir = None
    /\ default = None
    /\ NoSession
    /\ NoConflict

NextFilter == apply_search_filter

SpecFilter == InitFilter /\ [][NextFilter]_vars

-----------------------------------------------------------------------------
(* sort_results *)

\* ORDER_DIRECTIONS
ASCENDING  == <<"a", "s", "c">>
DESCENDING == <<"d", "e", "s", "c">>

asc(column)  == <<"asc", column>>
desc(column) == <<"desc", column>>

\* Mutant: the direction asked for is not looked at.
dir_func_asc(column) == asc(column)

\* Line 40
dir_func(column) == IF order_dir = ASCENDING THEN asc(column) ELSE desc(column)

\* Line 35: field_to_col_map.get(order_field, None)
GetOrderCols ==
    IF order_field \in Attributes THEN ColsOf(order_field) ELSE None

\* Lines 37-44: the columns to order by, None for none.
order_cols ==
    IF GetOrderCols # None /\ GetOrderCols # <<>>
       /\ order_dir \in {ASCENDING, DESCENDING}
    THEN [i \in 1..Len(GetOrderCols) |-> dir_func(GetOrderCols[i])]
    ELSE IF default # None THEN <<default>> ELSE None

sort_results ==
    /\ pc = "sort_results"
    /\ pc' = "returned"
    /\ query' = IF order_cols # None /\ order_cols # <<>>
                THEN OrderBy(query, order_cols)
                ELSE query
    /\ UNCHANGED <<field_to_col_map, free_text_search, field_filter,
                   strict_filter, terms, fts_sql_filter, dfs_sql_filter,
                   error, order_field, order_dir, default>>
    /\ UNCHANGED <<sessionVars, conflictVars>>

OrderFields == {"a", "b", "zz", NoneKey}

OrderDirs == {ASCENDING, DESCENDING, <<"A", "S", "C">>, <<>>, None}

Defaults == {None, asc("name"), desc("count")}

InitSort ==
    /\ pc = "sort_results"
    /\ field_to_col_map \in FieldToColMaps
    /\ order_field \in OrderFields
    /\ order_dir \in OrderDirs
    /\ default \in Defaults
    /\ free_text_search = None
    /\ field_filter = <<>>
    /\ strict_filter = {}
    /\ terms = <<>>
    /\ fts_sql_filter = None
    /\ dfs_sql_filter = None
    /\ query = BaseQuery
    /\ error = None
    /\ NoSession
    /\ NoConflict

NextSort == sort_results

SpecSort == InitSort /\ [][NextSort]_vars

-----------------------------------------------------------------------------
(* get_or_create *)

\* The attributes of the model class, and the values they take.
Fields == {"name", "kind"}

Val_u == <<"u">>
Val_v == <<"v">>

\* A SQL expression given as a keyword argument; it evaluates to `value`.
ClauseElement(value) == <<"ClauseElement", value>>

\* isinstance(v, ClauseElement)
IsClauseElement(v) == v[1] = "ClauseElement"

\* What column == v compares the column with.
SqlValue(v) == IF IsClauseElement(v) THEN v[2] ELSE v

\* Mutant: an instance matches when one of the keyword arguments does.
filter_by_any(instance, kwargs) ==
    \E k \in DOMAIN kwargs : instance[k] = SqlValue(kwargs[k])

\* Line 169: filter_by(**kwargs)
filter_by(instance, kwargs) ==
    \A k \in DOMAIN kwargs : instance[k] = SqlValue(kwargs[k])

\* Lines 173-174: the keyword arguments that are no SQL expression, updated
\* with the defaults (defaults or {}: None is the empty dict).
Params(kwargs, defaults) ==
    LET plain == {k \in DOMAIN kwargs : ~IsClauseElement(kwargs[k])}
    IN  [k \in plain \cup DOMAIN defaults |->
            IF k \in DOMAIN defaults THEN defaults[k] ELSE kwargs[k]]

\* Line 175: model(**params); an attribute not given is None.
Model(params) ==
    [f \in Fields |-> IF f \in DOMAIN params THEN params[f] ELSE None]

\* One call.  `remember` marks the call as the one a later call may repeat;
\* one call of a run is marked.
\* first() reads without ORDER BY: any matching instance may come first.
get_or_create(kwargs, defaults, remember) ==
    /\ pc = "get_or_create"
    /\ LET found == {r \in BagToSet(session) : filter_by(r, kwargs)}
           new   == Model(Params(kwargs, defaults))
       IN  IF found # {}
           THEN /\ \E instance \in found :
                      result' = <<[instance |-> instance, created |-> FALSE]>>
                /\ UNCHANGED session
           ELSE /\ BagCardinality(session) < MaxRecords
                /\ session' = session (+) SetToBag({new})
                /\ result' = <<[instance |-> new, created |-> TRUE]>>
    /\ remember => remembered = <<>>
    /\ call' = <<[kwargs |-> kwargs, defaults |-> defaults]>>
    /\ repeat' = (call' = remembered)
    /\ remembered' = IF remember THEN call' ELSE remembered
    /\ UNCHANGED <<pc, searchVars, conflictVars>>

KwargsOver(K) ==
    {kw \in [K -> {Val_u, Val_v, ClauseElement(Val_u)}] :
        "kind" \in K => kw["kind"] = Val_u}

DefaultsOver(K) ==
    {d \in [K -> {Val_u, Val_v}] : "kind" \in K => d["kind"] = Val_u}

KwargsSet == UNION {KwargsOver(K) : K \in SUBSET Fields}

\* The defaults: no key or one key.
DefaultsSet ==
    UNION {DefaultsOver(K) : K \in {L \in SUBSET Fields : Cardinality(L) <= 1}}

InitGetOrCreate ==
    /\ pc = "get_or_create"
    /\ NoSearch
    /\ NoConflict
    /\ session = EmptyBag
    /\ call = <<>>
    /\ remembered = <<>>
    /\ repeat = FALSE
    /\ result = <<>>

NextGetOrCreate ==
    \E kwargs \in KwargsSet, defaults \in DefaultsSet, remember \in BOOLEAN :
        get_or_create(kwargs, defaults, remember)

SpecGetOrCreate == InitGetOrCreate /\ [][NextGetOrCreate]_vars

-----------------------------------------------------------------------------
(* get_object_type_for, get_unique_fields, get_conflict_object *)

\* Column, attribute and dict-key names, as the strings they are.
N_id == <<"i", "d">>
N_name == <<"n", "a", "m", "e">>
N_description == <<"d", "e", "s", "c", "r", "i", "p", "t", "i", "o", "n">>
N_type == <<"t", "y", "p", "e">>
N_host_id == <<"h", "o", "s", "t", "_", "i", "d">>
N_service_id == <<"s", "e", "r", "v", "i", "c", "e", "_", "i", "d">>
N_method == <<"m", "e", "t", "h", "o", "d">>
N_parameter_name == <<"p", "a", "r", "a", "m", "e", "t", "e", "r", "_", "n", "a", "m", "e">>
N_path == <<"p", "a", "t", "h">>
N_website == <<"w", "e", "b", "s", "i", "t", "e">>
N_workspace_id == <<"w", "o", "r", "k", "s", "p", "a", "c", "e", "_", "i", "d">>
N_port == <<"p", "o", "r", "t">>
N_host == <<"h", "o", "s", "t">>
N_service == <<"s", "e", "r", "v", "i", "c", "e">>
N_workspace == <<"w", "o", "r", "k", "s", "p", "a", "c", "e">>
N_suffix_id == <<"_", "i", "d">>

\* str.endswith
EndsWith(s, suffix) ==
    /\ Len(s) >= Len(suffix)
    /\ SubSeq(s, Len(s) - Len(suffix) + 1, Len(s)) = suffix

RECURSIVE LStrip(_, _)
LStrip(s, chars) ==
    IF s # <<>> /\ Head(s) \in chars THEN LStrip(Tail(s), chars) ELSE s

RECURSIVE RStrip(_, _)
RStrip(s, chars) ==
    IF s # <<>> /\ s[Len(s)] \in chars THEN RStrip(SubSeq(s, 1, Len(s) - 1), chars)
    ELSE s

\* str.strip(chars): the characters of `chars` are removed from both ends.
Strip(s, chars) == RStrip(LStrip(s, Range(chars)), Range(chars))

\* The classes of candidate objects.  The vulnerability classes share one
\* table through inheritance and have no __tablename__ of their own.
Classes == {"Service", "Vulnerability", "VulnerabilityWeb", "Comment"}

TableName(class) == IF class = "Service" THEN "service" ELSE NoneKey

\* Lines 212-221; "RuntimeError" stands for the exception raised.
get_object_type_for(instance) ==
    IF TableName(instance.class) # NoneKey THEN TableName(instance.class)
    ELSE IF instance.class \in {"Vulnerability", "VulnerabilityWeb", "VulnerabilityCode"}
    THEN "vulnerability"
    ELSE "RuntimeError"

\* Lines 234-248: the unique index of the vulnerability table.
VulnerabilityUniqueConstraints ==
    <<[column_names |-> <<N_name, N_description, N_type, N_host_id,
                          N_service_id, N_method, N_parameter_name, N_path,
                          N_website, N_workspace_id>>]>>

\* Lines 224-251: the column lists yielded, in order.
get_unique_fields(instance) ==
    LET constraints ==
            IF get_object_type_for(instance) # "vulnerability"
            THEN unique_constraints
            ELSE VulnerabilityUniqueConstraints
    IN  [i \in 1..Len(constraints) |-> constraints[i].column_names]

\* Column.default.arg of the table's columns, None for a column without
\* default.
ColumnDefault(column) == IF column = N_description THEN <<>> ELSE None

In(column, values) == <<"in", column, values>>

\* filter(lambda, list), the order kept.
RECURSIVE FilterSeq(_, _)
FilterSeq(s, keep_id) ==
    IF s = <<>> THEN <<>>
    ELSE IF EndsWith(Head(s), N_suffix_id) = keep_id
    THEN <<Head(s)>> \o FilterSeq(Tail(s), keep_id)
    ELSE FilterSeq(Tail(s), keep_id)

\* list.remove(x) of an element the list holds.
RECURSIVE Remove(_, _)
Remove(s, x) ==
    IF s = <<>> THEN <<>>
    ELSE IF Head(s) = x THEN Tail(s)
    ELSE <<Head(s)>> \o Remove(Tail(s), x)

\* Lines 275-284: the comparison of one unique field, <<>> for none.
FieldCondition(unique_field) ==
    LET attr  == obj.attrs[unique_field]
        value == IF unique_field \in DOMAIN data THEN data[unique_field]
                 ELSE IF ~Truthy(attr) /\ ColumnDefault(unique_field) # None
                 THEN ColumnDefault(unique_field)
                 ELSE attr
    IN  IF value # None THEN <<OpEq(unique_field, value)>> ELSE <<>>

\* Lines 292-293: the workspaces of the rows whose id is in ids.
WorkspacesOfIds == {r[N_workspace_id] : r \in {x \in stored : x[N_id] \in ids}}

\* Lines 286-293
WorkspaceCondition(relations_fields) ==
    IF \E i \in 1..Len(relations_fields) : relations_fields[i] = N_workspace_id
    THEN IF Truthy(workspace)
         THEN <<OpEq(N_workspace_id, workspace)>>
         ELSE <<In(N_workspace_id, WorkspacesOfIds)>>
    ELSE <<>>

\* Lines 295-304: the comparison of one relation field, <<>> for none.
RelationCondition(relations_field) ==
    LET related == Strip(relations_field, N_suffix_id)
    IN  IF relations_field \notin DOMAIN data /\ related \in DOMAIN data
        THEN <<OpEq(relations_field, data[related][2])>>
        ELSE IF relations_field \in DOMAIN data /\ Truthy(data[relations_field])
        THEN <<OpEq(relations_field, data[relations_field])>>
        ELSE <<>>

RECURSIVE FieldConditions(_)
\* Lines 275-284: the loop over the unique fields.
FieldConditions(s) ==
    IF s = <<>> THEN <<>>
    ELSE FieldCondition(Head(s)) \o FieldConditions(Tail(s))

RECURSIVE RelationConditions(_)
\* Lines 294-304: the loop over the relation fields.
RelationConditions(s) ==
    IF s = <<>> THEN <<>>
    ELSE RelationCondition(Head(s)) \o RelationConditions(Tail(s))

\* Lines 257-304: filter_data for one unique constraint.
filter_data(all_fields) ==
    LET relations_fields == FilterSeq(all_fields, TRUE)
        unique_fields    == FilterSeq(all_fields, FALSE)
        other_relations  ==
            IF \E i \in 1..Len(relations_fields) : relations_fields[i] = N_workspace_id
            THEN Remove(relations_fields, N_workspace_id)
            ELSE relations_fields
    IN  FieldConditions(unique_fields)
        \o WorkspaceCondition(relations_fields)
        \o RelationConditions(other_relations)

\* A row satisfies one comparison.
Satisfies(row, condition) ==
    IF condition[1] = "=" THEN row[condition[2]] = condition[3]
    ELSE row[condition[2]] \in condition[3]

\* Lines 254-309.  The first unique constraint decides: both branches of
\* line 305 return inside the loop.  first() reads without ORDER BY: any
\* matching row may come first.
get_conflict_object ==
    /\ pc = "get_conflict_object"
    /\ IF get_object_type_for(obj) = "RuntimeError"
       THEN /\ pc' = "raised"
            /\ error' = <<"RuntimeError", "Unknown table for object">>
            /\ UNCHANGED conflict
       ELSE /\ pc' = "returned"
            /\ UNCHANGED error
            /\ LET unique_fields_gen == get_unique_fields(obj)
               IN  IF unique_fields_gen = <<>>
                   THEN conflict' = None
                   ELSE LET conditions == filter_data(unique_fields_gen[1])
                            matching   ==
                                {r \in stored :
                                    \A i \in 1..Len(conditions) : Satisfies(r, conditions[i])}
                        IN  IF conditions # <<>> /\ matching # {}
                            THEN conflict' \in matching
                            ELSE conflict' = None
    /\ UNCHANGED <<field_to_col_map, free_text_search, field_filter,
                   strict_filter, terms, fts_sql_filter, dfs_sql_filter,
                   query, order_field, order_dir, default>>
    /\ UNCHANGED <<sessionVars, obj, data, workspace, ids, unique_constraints, stored>>

\* Inputs of get_conflict_object.

Val_a == <<"a">>
Val_b == <<"b">>
Id_1  == <<"1">>
Id_2  == <<"2">>

\* A related object given in data: its id is all that is read.
Related(id) == <<"object", id>>

PlainFields(class) ==
    IF class = "Service" THEN {N_name, N_port}
    ELSE {N_name, N_description, N_type, N_method, N_parameter_name, N_path,
          N_website}

\* The rows a table may hold.  A vulnerability of a host has no service.
Rows(class, id) ==
    IF class = "Service"
    THEN {[c \in {N_id, N_name, N_port, N_host_id, N_workspace_id} |->
              CASE c = N_id -> id
                [] c = N_name -> name
                [] c = N_port -> Id_1
                [] c = N_host_id -> host
                [] c = N_workspace_id -> ws] :
              name \in {Val_a, Val_b}, host \in {Id_1, Id_2}, ws \in {Id_1, Id_2}}
    ELSE {[c \in {N_id, N_host_id, N_service_id, N_workspace_id}
                 \cup PlainFields(class) |->
              CASE c = N_id -> id
                [] c = N_name -> name
                [] c = N_description -> <<>>
                [] c = N_host_id -> host
                [] c = N_service_id -> None
                [] c = N_workspace_id -> ws
                [] OTHER -> Val_a] :
              name \in {Val_a, Val_b}, host \in {Id_1, Id_2}, ws \in {Id_1, Id_2}}

RECURSIVE StoredSets(_, _)
\* The tables of at most n rows, with the ids 1, 2, ...
StoredSets(class, n) ==
    IF n = 0 THEN {{}}
    ELSE LET id == IF n = 1 THEN Id_1 ELSE IF n = 2 THEN Id_2 ELSE <<"3">>
         IN  StoredSets(class, n - 1)
             \cup {t \cup {r} : t \in {u \in StoredSets(class, n - 1) :
                                          Cardinality(u) = n - 1},
                                r \in Rows(class, id)}

ObjAttrs(class) ==
    {[f \in PlainFields(class) |->
         IF f = N_name THEN name
         ELSE IF f \in {N_port, N_description} THEN other
         ELSE Val_a] :
         name \in {None, Val_a}, other \in {None, Id_1}}

\* The dicts of candidate data: the name, the host by id or as an object;
\* the other plain fields of a vulnerability are given, its description and
\* the port of a service are not.
DataSets(class) ==
    LET always == PlainFields(class) \ {N_name, N_port, N_description}
        keys   == {K \cup always :
                      K \in SUBSET {N_name, N_host_id, N_host}}
    IN  UNION {{[k \in K |->
                   CASE k = N_name -> name
                     [] k = N_host_id -> Id_1
                     [] k = N_host -> Related(Id_2)
                     [] OTHER -> Val_a] : name \in {Val_a, Val_b}} : K \in keys}

\* What the inspector may reflect for the service table.
ReflectedConstraints ==
    {[column_names |-> <<N_port, N_host_id, N_workspace_id>>],
     [column_names |-> <<N_name, N_workspace_id>>],
     [column_names |-> <<N_name>>]}

ConstraintLists ==
    {s \in InjSeqs(ReflectedConstraints, MaxConstraints) : NoRepeat(s)}

InitConflict ==
    /\ pc = "get_conflict_object"
    /\ NoSearch
    /\ NoSession
    /\ \E class \in Classes :
          IF class = "Comment"
          THEN /\ obj = [class |-> class, attrs |-> <<>>]
               /\ data \in DataSets("Service")
               /\ stored = {}
               /\ unique_constraints = <<>>
          ELSE /\ obj \in {[class |-> class, attrs |-> a] : a \in ObjAttrs(class)}
               /\ data \in DataSets(class)
               /\ stored \in StoredSets(class, MaxStored)
               /\ unique_constraints \in
                     (IF class = "Service" THEN ConstraintLists ELSE {<<>>})
    /\ workspace \in {None, Id_1, Id_2}
    /\ ids \in (IF workspace = None THEN SUBSET {Id_1} ELSE {{}})
    /\ conflict = None

NextConflict == get_conflict_object

SpecConflict == InitConflict /\ [][NextConflict]_vars

-----------------------------------------------------------------------------
(* Reading SQL expressions *)

IsLeaf(t) == t[1] \in {"like", "=", "is"}

RECURSIVE Leaves(_)
\* The comparisons an expression is built from.
Leaves(t) ==
    IF t = None THEN {}
    ELSE IF IsLeaf(t) THEN {t}
    ELSE Leaves(t[2]) \cup Leaves(t[3])

RECURSIVE Subterms(_)
Subterms(t) ==
    IF t = None THEN {}
    ELSE IF IsLeaf(t) THEN {t}
    ELSE {t} \cup Subterms(t[2]) \cup Subterms(t[3])

RECURSIVE Disjuncts(_)
\* The operands of the disjunction t, an expression that is no OR being its
\* own single disjunct.
Disjuncts(t) ==
    IF t = None THEN {}
    ELSE IF t[1] = "or" THEN Disjuncts(t[2]) \cup Disjuncts(t[3])
    ELSE {t}

RECURSIVE Conjuncts(_)
Conjuncts(t) ==
    IF t = None THEN {}
    ELSE IF t[1] = "and" THEN Conjuncts(t[2]) \cup Conjuncts(t[3])
    ELSE {t}

Wild(s) == <<"%">> \o s \o <<"%">>

LeavesOn(t, column) == {leaf \in Leaves(t) : leaf[2] = column}

Filtered == Attributes \cap DOMAIN field_filter

Unfiltered == Attributes \ DOMAIN field_filter

IsNull(column) == OrExpr(Is(column, "FALSE"), Is(column, "NULL"))

\* The comparison `leaf` is built from the field filter's value v.
FromFieldFilter(leaf, v) ==
    \/ leaf[1] = "like" /\ leaf[3] = Wild(v)
    \/ leaf[1] = "=" /\ leaf[3] = v
    \/ leaf[1] = "is" /\ leaf[3] = "TRUE" /\ Lower(v) \in {Str_true, Str_1}
    \/ leaf[1] = "is" /\ leaf[3] \in {"FALSE", "NULL"}
                      /\ Lower(v) \in {Str_false, Str_0}

\* The comparison `leaf` is the free-text term's LIKE.
FromFreeText(leaf) == leaf[1] = "like" /\ leaf[3] = Wild(free_text_search)

UnionOf(S) == UNION S

-----------------------------------------------------------------------------
(* Claims on apply_search_filter *)

ConfiguredColumns == UnionOf({Range(ColsOf(a)) : a \in Attributes})

SearchableColumns == {c \in ConfiguredColumns : ~IsStr(c)}

FreeTextOnly ==
    pc = "returned" /\ Truthy(free_text_search) /\ DOMAIN field_filter = {}

\* The query is filtered by the disjunction of LIKE '%term%' over the
\* columns of `columns`, and is left alone when there is none.
FreeTextOver(columns) ==
    IF columns = {} THEN query = BaseQuery
    ELSE /\ Len(query) = 1
         /\ query[1][1] = "filter"
         /\ Disjuncts(query[1][2]) =
                {Like(c, Wild(free_text_search)) : c \in columns}

C5_InvalidFieldRaises ==
    pc # "apply_search_filter" =>
        /\ (pc = "raised") <=> (\E k \in DOMAIN field_filter : k \notin Attributes)
        /\ pc = "raised" =>
              /\ error = <<"ValueError", "Invalid field to filter">>
              /\ terms = <<>>
              /\ fts_sql_filter = None
              /\ dfs_sql_filter = None
              /\ query = BaseQuery
        /\ pc = "returned" => error = None

\* A call that raised although one key of field_filter is mapped and a
\* free-text term was given.
C5_Witness ==
    /\ pc = "raised"
    /\ Filtered # {}
    /\ Truthy(free_text_search)

\* C6: for a field-filtered attribute, a Boolean column gets IS TRUE for
\* 'true' and '1', IS FALSE OR IS NULL for 'false' and '0' (the value
\* lower-cased), and nothing at all for any other value; an attribute with
\* only Boolean columns and another value yields no term, and if nothing
\* else yields one the query is not filtered.
C6_BooleanNormalization ==
    pc = "returned" =>
        \A a \in Filtered :
            LET v     == Lower(field_filter[a])
                bools == {c \in Range(ColsOf(a)) : ColumnType(c) = "Boolean"}
            IN  /\ \A c \in bools :
                      /\ v \in {Str_true, Str_1} =>
                            /\ LeavesOn(terms[a], c) = {Is(c, "TRUE")}
                            /\ Is(c, "TRUE") \in Disjuncts(terms[a])
                      /\ v \in {Str_false, Str_0} =>
                            /\ LeavesOn(terms[a], c) = {Is(c, "FALSE"), Is(c, "NULL")}
                            /\ IsNull(c) \in Subterms(terms[a])
                      /\ v \notin {Str_true, Str_1, Str_false, Str_0} =>
                            LeavesOn(terms[a], c) = {}
                /\ (/\ bools = Range(ColsOf(a))
                    /\ v \notin {Str_true, Str_1, Str_false, Str_0}) =>
                        /\ terms[a] = None
                        /\ (\A b \in Attributes \ {a} : terms[b] = None)
                              => query = BaseQuery

\* A Boolean column filtered with 'FALSE' in upper case.
C6_Witness ==
    /\ pc = "returned"
    /\ \E a \in Filtered :
          /\ field_filter[a] = <<"F", "A", "L", "S", "E">>
          /\ "confirmed" \in Range(ColsOf(a))
          /\ IsNull("confirmed") \in Subterms(terms[a])

\* C7: a non-Boolean column of an attribute that is a key of field_filter
\* and listed in strict_filter is compared with '=' to the raw value; the
\* free-text search ignores strict_filter; the filter applied is the AND of
\* the OR of the free-text terms with each field-filtered attribute's OR
\* over its columns; and the query is left alone when no term was built.
C7_StrictAndComposition ==
    pc = "returned" =>
        /\ \A a \in Filtered \cap strict_filter :
              \A c \in Range(ColsOf(a)) :
                  ColumnType(c) = "String" =>
                      LeavesOn(terms[a], c) = {OpEq(c, field_filter[a])}
        /\ \A a \in Unfiltered :
              \A c \in Range(ColsOf(a)) :
                  (Truthy(free_text_search) /\ ~IsStr(c)) =>
                      LeavesOn(terms[a], c) = {Like(c, Wild(free_text_search))}
        /\ Disjuncts(fts_sql_filter) =
              UnionOf({Disjuncts(terms[a]) : a \in Unfiltered})
        /\ Conjuncts(dfs_sql_filter) = {terms[a] : a \in Filtered} \ {None}
        /\ \A a \in Filtered : \A t \in Subterms(terms[a]) : t[1] # "and"
        /\ IF \A a \in Attributes : terms[a] = None
           THEN query = BaseQuery
           ELSE /\ Len(query) = 1
                /\ query[1][1] = "filter"
                /\ Conjuncts(query[1][2]) =
                      ({fts_sql_filter} \ {None}) \cup Conjuncts(dfs_sql_filter)

\* A strict field filter on one attribute together with a free-text term
\* that reaches another attribute listed in strict_filter.
C7_Witness ==
    /\ pc = "returned"
    /\ fts_sql_filter # None
    /\ dfs_sql_filter # None
    /\ \E a \in Filtered \cap strict_filter : "name" \in Range(ColsOf(a))
    /\ \E b \in Unfiltered \cap strict_filter : terms[b] # None

-----------------------------------------------------------------------------
(* Claims on sort_results *)

RequirementsMet ==
    /\ order_field \in Attributes
    /\ Len(ColsOf(order_field)) > 0
    /\ order_dir \in {ASCENDING, DESCENDING}

\* C8: sort_results orders by every column mapped to order_field, each in
\* the direction asked for, exactly when order_field maps to a non-empty
\* column list and order_dir is 'asc' or 'desc'; otherwise by the default
\* alone when there is one, and else the query is returned as it was.  It
\* raises neither for an unknown order_field nor for an invalid order_dir.
C8_SortResults ==
    pc # "sort_results" =>
        /\ pc = "returned"
        /\ error = None
        /\ IF RequirementsMet
           THEN /\ Len(query) = 1
                /\ query[1][1] = "order_by"
                /\ Len(query[1][2]) = Len(ColsOf(order_field))
                /\ \A i \in 1..Len(ColsOf(order_field)) :
                      /\ query[1][2][i][2] = ColsOf(order_field)[i]
                      /\ query[1][2][i][1] =
                            (IF order_dir = ASCENDING THEN "asc" ELSE "desc")
           ELSE IF default # None
           THEN query = <<<<"order_by", <<default>>>>>>
           ELSE query = BaseQuery

\* Two columns ordered in descending direction.
C8_Witness ==
    /\ pc = "returned"
    /\ RequirementsMet
    /\ order_dir = DESCENDING
    /\ Len(query[1][2]) = 2

-----------------------------------------------------------------------------
(* Claims on get_or_create *)

MatchesAll(instance, kwargs) ==
    \A k \in DOMAIN kwargs :
        instance[k] = (IF kwargs[k][1] = "ClauseElement" THEN kwargs[k][2]
                       ELSE kwargs[k])

\* The instance a call creates: the keyword arguments, overridden by the
\* defaults, SQL expressions left out.
Built(kwargs, defaults) ==
    [f \in Fields |->
        IF f \in DOMAIN defaults THEN defaults[f]
        ELSE IF f \in DOMAIN kwargs /\ kwargs[f][1] # "ClauseElement" THEN kwargs[f]
        ELSE None]

\* One call finds or creates: an instance matching all kwargs is returned
\* with created = False and nothing is added; without one, exactly one new
\* instance is added and returned with created = True.
FindOrCreateStep ==
    LET kwargs   == call'[1].kwargs
        defaults == call'[1].defaults
        res      == result'[1]
    IN  IF \E r \in BagToSet(session) : MatchesAll(r, kwargs)
        THEN /\ res.created = FALSE
             /\ BagIn(res.instance, session)
             /\ MatchesAll(res.instance, kwargs)
             /\ session' = session
        ELSE /\ res.created = TRUE
             /\ res.instance = Built(kwargs, defaults)
             /\ BagCardinality(session') = BagCardinality(session) + 1
             /\ CopiesIn(res.instance, session') = CopiesIn(res.instance, session) + 1

RepeatFinds ==
    /\ result'[1].created = FALSE
    /\ BagCardinality(session') = BagCardinality(session)

\* The defaults give no key of kwargs another value, and no value of kwargs
\* is a SQL expression.
DefaultsAgree(args) ==
    /\ \A k \in DOMAIN args.kwargs : args.kwargs[k][1] # "ClauseElement"
    /\ \A k \in DOMAIN args.kwargs \cap DOMAIN args.defaults :
          args.defaults[k] = args.kwargs[k]

\* C4 as stated: every call finds or creates, and a call repeating an earlier
\* call's kwargs and defaults returns created = False and adds no record.
C4_RepeatNeverCreates ==
    [][FindOrCreateStep /\ (repeat' => RepeatFinds)]_vars

\* C4 amended: every call finds or creates, and a call repeating an earlier
\* call's kwargs and defaults returns created = False and adds no record,
\* provided the defaults give no key of kwargs a different value and no
\* value of kwargs is a SQL expression (ClauseElement).
C4_FindOrCreate ==
    [][FindOrCreateStep /\ ((repeat' /\ DefaultsAgree(call'[1])) => RepeatFinds)]_vars

\* An earlier call is repeated after another call added a second instance,
\* and finds the instance it created.
C4_Witness ==
    /\ repeat
    /\ DefaultsAgree(call[1])
    /\ DOMAIN call[1].kwargs = Fields
    /\ DOMAIN call[1].defaults # {}
    /\ result[1].created = FALSE
    /\ BagCardinality(session) = 2

-----------------------------------------------------------------------------
(* Claims on get_conflict_object *)

\* The value the candidate has in a column: what data gives, else the
\* object's attribute, else the column's default; for a relation the id
\* given in data, directly or through the related object.
CandidateValue(column) ==
    IF EndsWith(column, N_suffix_id)
    THEN LET related == SubSeq(column, 1, Len(column) - Len(N_suffix_id))
         IN  IF column \in DOMAIN data THEN data[column]
             ELSE IF related \in DOMAIN data THEN data[related][2]
             ELSE None
    ELSE IF column \in DOMAIN data THEN data[column]
    ELSE IF obj.attrs[column] # None THEN obj.attrs[column]
    ELSE ColumnDefault(column)

\* The row has the candidate's value in every column of the constraint (the
\* workspace is the one given, or one of those of the context view).
AgreesOn(row, column_names) ==
    \A i \in 1..Len(column_names) :
        LET c == column_names[i]
        IN  IF c = N_workspace_id
            THEN IF workspace # None THEN row[c] = workspace
                 ELSE row[c] \in WorkspacesOfIds
            ELSE CandidateValue(c) # None /\ row[c] = CandidateValue(c)

\* The candidate gives a value for every column of every constraint.
CandidateComplete ==
    \A i \in 1..Len(get_unique_fields(obj)) :
        \A j \in 1..Len(get_unique_fields(obj)[i]) :
            LET c == get_unique_fields(obj)[i][j]
            IN  c # N_workspace_id => CandidateValue(c) # None

\* Every constraint with a stored record that agrees with the candidate on
\* all its columns makes the call return a record.
EveryConstraintDetected ==
    \A i \in 1..Len(get_unique_fields(obj)) :
        (\E r \in stored : AgreesOn(r, get_unique_fields(obj)[i]))
            => conflict # None

\* A record returned is stored and agrees with the candidate on all columns
\* of at least one constraint.
ReturnedViolates ==
    conflict # None =>
        /\ conflict \in stored
        /\ \E i \in 1..Len(get_unique_fields(obj)) :
              AgreesOn(conflict, get_unique_fields(obj)[i])

\* C3: whenever a stored record agrees with the candidate on all columns of
\* one of the unique constraints yielded by get_unique_fields, a record is
\* returned; and a record returned agrees with the candidate on all columns
\* of at least one of those constraints.  Stated for the candidates that
\* give a value for every column of the constraints.
C3_ConflictObject ==
    (pc = "returned" /\ CandidateComplete) =>
        /\ EveryConstraintDetected
        /\ ReturnedViolates

\* The same for the tables with at most one unique constraint, where the
\* first constraint is the only one.
C3_SingleConstraint ==
    Len(get_unique_fields(obj)) <= 1 => C3_ConflictObject

=============================================================================
